---- MODULE Spec2Model ----
(***************************************************************************)
(* A model of fetch_auctions.py: the incremental fetch-and-merge engine    *)
(* that pulls auction prices from a GraphQL API (batched, with a fallback  *)
(* to per-player date-window pagination) and merges them into one JSON     *)
(* history file per player.                                                *)
(*                                                                         *)
(* Representation.                                                         *)
(*  - A date is an ISO-8601 string in the source; the code only compares   *)
(*    dates (==, <) and uses them as dict keys, so a date is modelled by   *)
(*    an integer 1..MaxDate with the same order.  NoDate (0) is the empty  *)
(*    string "" that tp.get("date", "") yields for an observation without  *)
(*    a date: it is falsy and sorts before every date.                     *)
(*  - A Python dict is a sequence of <<key, value>> pairs with distinct    *)
(*    keys, in insertion order (the order json.dump writes and json.load   *)
(*    restores).                                                           *)
(*  - price_usd = usd_cents / 100.0 is modelled as the fixed-point pair    *)
(*    [units, hundredths].                                                 *)
(***************************************************************************)
EXTENDS Integers, Sequences, FiniteSets, TLC

\* ------------------------------------------------------------------------
\* Bounds of the model
\* ------------------------------------------------------------------------

\* Dates are 1..MaxDate.
MaxDate == 2

\* Longest record batch handed to the merge in SpecMerge.
MaxBatchLen == 2

\* usdCents values the upstream may report.
Amounts == {100, 250}

NoDate == 0

Dates == 1..MaxDate

\* ------------------------------------------------------------------------
\* Python dict {date: price}, insertion-ordered
\* ------------------------------------------------------------------------

DictKeys(d) == {d[i][1] : i \in 1..Len(d)}

\* `key in d`
DictHas(d, k) == \E i \in 1..Len(d) : d[i][1] = k

\* d[key] for a key of d
DictGet(d, k) == d[CHOOSE i \in 1..Len(d) : d[i][1] = k][2]

\* d[key] = value: an existing key keeps its position and takes the new
\* value, a new key is appended.
DictSet(d, k, v) ==
    IF DictHas(d, k)
    THEN [i \in 1..Len(d) |-> IF d[i][1] = k THEN <<k, v>> ELSE d[i]]
    ELSE Append(d, <<k, v>>)

\* dict.items() as a set
DictItems(d) == {d[i] : i \in 1..Len(d)}

\* dict equality (==) ignores the insertion order: the same keys with the
\* same values, which for dicts (distinct keys) is the same set of items.
DictEq(d, e) == DictItems(d) = DictItems(e)

RECURSIVE SeqsUpTo(_, _)
\* All sequences over S of length <= n.
SeqsUpTo(S, n) ==
    IF n = 0
    THEN {<<>>}
    ELSE LET shorter == SeqsUpTo(S, n - 1)
         IN  shorter \cup
             {Append(s, x) : s \in {t \in shorter : Len(t) = n - 1}, x \in S}

\* usd_cents / 100.0
PriceUsd(usd_cents) ==
    [units |-> usd_cents \div 100, hundredths |-> usd_cents % 100]

Prices == {PriceUsd(c) : c \in Amounts}

\* ------------------------------------------------------------------------
\* _process_player_results: the merge loop
\* ------------------------------------------------------------------------

RECURSIVE MergeLoopOverwriteCounted(_, _, _)
\* Mutant of the merge loop: counts every record, also one whose date is
\* already a key.
MergeLoopOverwriteCounted(history, new_count, new_auctions) ==
    IF new_auctions = <<>>
    THEN [history |-> history, new_count |-> new_count]
    ELSE LET date  == Head(new_auctions)[1]
             price == Head(new_auctions)[2]
         IN  MergeLoopOverwriteCounted(DictSet(history, date, price),
                                       new_count + 1,
                                       Tail(new_auctions))

RECURSIVE MergeLoopSkip(_, _, _)
\* Mutant of the merge loop: a record whose date is already a key is
\* skipped (history[date] = price moved under the if).
MergeLoopSkip(history, new_count, new_auctions) ==
    IF new_auctions = <<>>
    THEN [history |-> history, new_count |-> new_count]
    ELSE LET date  == Head(new_auctions)[1]
             price == Head(new_auctions)[2]
         IN  IF DictHas(history, date)
             THEN MergeLoopSkip(history, new_count, Tail(new_auctions))
             ELSE MergeLoopSkip(DictSet(history, date, price),
                                new_count + 1,
                                Tail(new_auctions))

RECURSIVE MergeLoop(_, _, _)
\* for date, price in new_auctions:
\*     if date not in history: new_count += 1
\*     history[date] = price
MergeLoop(history, new_count, new_auctions) ==
    IF new_auctions = <<>>
    THEN [history |-> history, new_count |-> new_count]
    ELSE LET date  == Head(new_auctions)[1]
             price == Head(new_auctions)[2]
         IN  MergeLoop(DictSet(history, date, price),
                       IF DictHas(history, date)
                       THEN new_count ELSE new_count + 1,
                       Tail(new_auctions))

\* new_count = 0, then the loop
Merge(history, new_auctions) == MergeLoop(history, 0, new_auctions)

\* sorted_prices = [price for _, price in sorted(history.items())]
\* (the keys of a dict are distinct, so the sort is by date alone)
RECURSIVE SortedItems(_)
SortedItems(history) ==
    IF history = <<>>
    THEN <<>>
    ELSE LET m == CHOOSE i \in 1..Len(history) :
                      \A j \in 1..Len(history) : history[i][1] <= history[j][1]
         IN  <<history[m]>> \o
             SortedItems(SelectSeq(history, LAMBDA e : e[1] # history[m][1]))

\* Mutant of the row: the prices in the dict's own (insertion) order.
SortedPricesUnsorted(history) ==
    [i \in 1..Len(history) |-> history[i][2]]

SortedPrices(history) ==
    [i \in 1..Len(history) |-> SortedItems(history)[i][2]]

\* ------------------------------------------------------------------------
\* Config
\* ------------------------------------------------------------------------

\* max results per player per API call.  The source sets 20; the code only
\* compares a page's length with it, so the model scales it down to keep
\* full pages small.
BATCH_SIZE == 2

\* players per batched GraphQL request.  The source sets 3; the model scales
\* it down so that a short roster still splits into several batches.
PLAYERS_PER_BATCH == 2

\* ------------------------------------------------------------------------
\* Response bodies
\* ------------------------------------------------------------------------

\* A value that is a list or Python's None (the rejection sentinel of the
\* batch fetch).
NoneValue == [is_none |-> TRUE, list |-> <<>>]

ListValue(list) == [is_none |-> FALSE, list |-> list]

\* A string is a tuple of characters.
Needle == <<"c", "o", "m", "p", "l", "e", "x", "i", "t", "y">>

LowerOf ==
    [A |-> "a", B |-> "b", C |-> "c", D |-> "d", E |-> "e", F |-> "f",
     G |-> "g", H |-> "h", I |-> "i", J |-> "j", K |-> "k", L |-> "l",
     M |-> "m", N |-> "n", O |-> "o", P |-> "p", Q |-> "q", R |-> "r",
     S |-> "s", T |-> "t", U |-> "u", V |-> "v", W |-> "w", X |-> "x",
     Y |-> "y", Z |-> "z"]

\* str.lower()
Lower(str) ==
    [i \in 1..Len(str) |->
        IF str[i] \in DOMAIN LowerOf THEN LowerOf[str[i]] ELSE str[i]]

\* `sub in str`
Contains(sub, str) ==
    \E i \in 1..(Len(str) - Len(sub) + 1) :
        SubSeq(str, i, i + Len(sub) - 1) = sub

\* Error objects: [has_message, message]; err.get("message", "") is "" for
\* an error without a message.
ErrMessage(err) == IF err.has_message THEN err.message ELSE <<>>

\* Mutant of _has_complexity_error: the test is case-sensitive
\* ("complexity" in msg).
HasComplexityErrorCaseSensitive(body) ==
    \E i \in 1..Len(body.errors) :
        Contains(Needle, ErrMessage(body.errors[i]))

\* Mutant of _has_complexity_error: only the first error is looked at.
HasComplexityErrorFirstOnly(body) ==
    /\ body.errors # <<>>
    /\ Contains(Needle, Lower(ErrMessage(body.errors[1])))

\* _has_complexity_error(body): body.errors is body.get("errors", []).
HasComplexityError(body) ==
    \E i \in 1..Len(body.errors) :
        Contains(Needle, Lower(ErrMessage(body.errors[i])))

\* A tokenPrices entry tp is [date, usdCents, deal]:
\*   date      a date, or NoDate when the entry has no date;
\*   deal      "null"    deal is null,
\*             "empty"   deal is {} (a deal that is no TokenAuction),
\*             "no_id"   deal is an object whose id is null,
\*             "auction" deal is an object with an id.
DealKinds == {"null", "empty", "no_id", "auction"}

\* `deal` as a truth value: None and {} are falsy.
DealTruthy(deal) == deal \notin {"null", "empty"}

\* `deal.get("id")` as a truth value.
DealIdTruthy(deal) == deal = "auction"

\* Mutant of the parser: every entry with a deal object is kept, whether or
\* not the deal has an id.
ParseTokenPricesAnyDeal(token_prices) ==
    LET kept == SelectSeq(token_prices, LAMBDA tp : DealTruthy(tp.deal))
    IN  [i \in 1..Len(kept) |-> <<kept[i].date, PriceUsd(kept[i].usdCents)>>]

\* _parse_token_prices(token_prices)
ParseTokenPrices(token_prices) ==
    LET kept == SelectSeq(token_prices,
                          LAMBDA tp : DealTruthy(tp.deal) /\ DealIdTruthy(tp.deal))
    IN  [i \in 1..Len(kept) |-> <<kept[i].date, PriceUsd(kept[i].usdCents)>>]

\* tokens.get(f"player{i}") or []: body.tokens is the list of the aliased
\* sub-responses player0, player1, ... of the response; it is <<>> when data
\* or data.tokens is missing or null, and an alias that is missing or null
\* reads as [].
TokensGet(body, i) ==
    IF i > Len(body.tokens) THEN <<>> ELSE body.tokens[i]

SlugsOf(slugs) == {slugs[i] : i \in 1..Len(slugs)}

\* The Python dict built by a comprehension or a loop over enumerate(slugs):
\* the last entry of a repeated slug wins.
LastIndex(slugs, slug) ==
    CHOOSE i \in 1..Len(slugs) :
        /\ slugs[i] = slug
        /\ \A j \in (i + 1)..Len(slugs) : slugs[j] # slug

\* Mutant of fetch_batch_auction_prices: on a complexity error only the
\* first slug gets None, the others an empty list.
FetchBatchPartialFallback(slugs, body) ==
    IF HasComplexityError(body)
    THEN [slug \in SlugsOf(slugs) |->
            IF slug = slugs[1] THEN NoneValue ELSE ListValue(<<>>)]
    ELSE [slug \in SlugsOf(slugs) |->
            ListValue(ParseTokenPrices(TokensGet(body, LastIndex(slugs, slug))))]

\* fetch_batch_auction_prices(slugs), given the response body: a dict
\* slug -> list of records, or slug -> None.
FetchBatch(slugs, body) ==
    IF HasComplexityError(body)
    THEN [slug \in SlugsOf(slugs) |-> NoneValue]
    ELSE [slug \in SlugsOf(slugs) |->
            ListValue(ParseTokenPrices(TokensGet(body, LastIndex(slugs, slug))))]

\* ------------------------------------------------------------------------
\* fetch_auction_prices: one page of the date-window pagination
\* ------------------------------------------------------------------------

\* to_cursor / prev_cursor / oldest_date when they are None.
NoCursor == -1

\* The records the paging loop appends for one page: the entries with
\* `deal and deal.get("id")`, as (tp.get("date", ""), usd_cents / 100.0).
PageKept(token_prices) ==
    LET kept == SelectSeq(token_prices,
                          LAMBDA tp : DealTruthy(tp.deal) /\ DealIdTruthy(tp.deal))
    IN  [i \in 1..Len(kept) |-> <<kept[i].date, PriceUsd(kept[i].usdCents)>>]

\* oldest_date after the loop over the page: the least date among the
\* entries that have one (`if d:`), None when no entry has a date.
OldestDate(token_prices) ==
    LET dated == {token_prices[i].date : i \in 1..Len(token_prices)} \ {NoDate}
    IN  IF dated = {}
        THEN NoCursor
        ELSE CHOOSE d \in dated : \A e \in dated : d <= e

\* Mutant of the stall guard: the candidate is compared with the cursor
\* just used (to_cursor) instead of the one before it (prev_cursor).
StallsAgainstCurrent(oldest_date, fap_prev_cursor, fap_to_cursor) ==
    oldest_date = fap_to_cursor

\* Mutant of the stall guard: no guard.
StallsNever(oldest_date, fap_prev_cursor, fap_to_cursor) == FALSE

\* if oldest_date == prev_cursor: break
Stalls(oldest_date, fap_prev_cursor, fap_to_cursor) ==
    oldest_date = fap_prev_cursor

\* Mutant of the end-of-data test: a short page does not stop the loop.
EndOfDataNever(token_prices) == FALSE

\* if len(token_prices) < BATCH_SIZE: break
EndOfData(token_prices) == Len(token_prices) < BATCH_SIZE

\* ------------------------------------------------------------------------
\* History files
\* ------------------------------------------------------------------------

\* A history file is missing, holds the complete JSON text of a dict, or
\* holds a text that is no JSON document: the empty text open(path, "w")
\* leaves, or a prefix of a document.
MissingFile == [kind |-> "missing", doc |-> <<>>]

TruncatedFile == [kind |-> "partial", doc |-> <<>>]

\* json.dump(history, f, indent=2) once the file is closed: the keys are
\* strings and the values floats, which JSON writes and reads back as they
\* are, in the dict's order.
JsonDump(history) == [kind |-> "complete", doc |-> history]

\* Mutant of load_history: the prior history is not read (the history is
\* rebuilt from the fetched records alone).
LoadHistoryFromScratch(file) == <<>>

\* load_history(path) for a file json.load can parse: {} when there is no
\* file, the dict of the document otherwise.
LoadHistory(file) ==
    IF file.kind = "missing" THEN <<>> ELSE file.doc

\* Mutant of load_history: a text that is no JSON document loads as {}.
LoadRaisesNever(file) == FALSE

\* json.load raises on a text that is no JSON document.
LoadRaises(file) == file.kind = "partial"

\* ------------------------------------------------------------------------
\* Roster and upstream responses
\* ------------------------------------------------------------------------

POSITIONS == <<"gk", "df", "mf", "fw">>

\* players.yaml: three goalkeepers, no defender, one midfielder, and no
\* entry at all for the forwards.
players_data ==
    [gk |-> << [slug |-> "ann-lee", team |-> "red"],
               [slug |-> "bo-diaz-1998-09-01", team |-> "red"],
               [slug |-> "cy-moss", team |-> "blue"] >>,
     df |-> << >>,
     mf |-> << [slug |-> "di-roy", team |-> "blue"] >>]

\* players_data.get(pos, [])
PlayersOf(pos) ==
    IF pos \in DOMAIN players_data THEN players_data[pos] ELSE <<>>

Slugs ==
    UNION {{PlayersOf(POSITIONS[c])[i].slug : i \in 1..Len(PlayersOf(POSITIONS[c]))} :
           c \in 1..Len(POSITIONS)}

\* name_from_slug on the slugs of the roster: the trailing -YYYY-MM-DD is
\* stripped, the parts are capitalised and joined by a space.
name_from_slug(slug) ==
    CASE slug = "ann-lee" -> "Ann Lee"
      [] slug = "bo-diaz-1998-09-01" -> "Bo Diaz"
      [] slug = "cy-moss" -> "Cy Moss"
      [] slug = "di-roy" -> "Di Roy"

BudgetError ==
    [has_message |-> TRUE,
     message |-> <<"Q", "u", "e", "r", "y", " ", "C", "o", "m", "p", "l", "e",
                   "x", "i", "t", "y", " ", "9", "9">>]

OtherError ==
    [has_message |-> TRUE,
     message |-> <<"n", "o", "t", " ", "f", "o", "u", "n", "d">>]

Tp(date, usdCents, deal) == [date |-> date, usdCents |-> usdCents, deal |-> deal]

\* Pages of the upstream used in the runs of the orchestration.  The full
\* page is BATCH_SIZE long.
PageEmpty == <<>>

\* one sale
PageShort == << Tp(2, 100, "auction") >>

\* one price observation that is no sale
PageNoDeal == << Tp(1, 250, "no_id") >>

\* a full page: two sales, the more recent first, then observations that
\* are no sales
PageFull ==
    [i \in 1..BATCH_SIZE |->
        IF i = 1 THEN Tp(2, 100, "auction")
        ELSE IF i = 2 THEN Tp(1, 250, "auction")
        ELSE Tp(1, 250, "null")]

RunPages == {PageEmpty, PageShort, PageNoDeal, PageFull}

\* Responses to the single query: {errors?, data: {tokens: {tokenPrices}}}.
SingleBody(errors, token_prices) ==
    [errors |-> errors, tokenPrices |-> token_prices]

RunSingleBodies ==
    {SingleBody(<<>>, page) : page \in RunPages}
    \cup {SingleBody(<<BudgetError>>, PageEmpty),
          SingleBody(<<BudgetError>>, PageShort),
          SingleBody(<<OtherError>>, PageEmpty),
          SingleBody(<<OtherError>>, PageShort)}

\* Responses to a batch query of n aliases: {errors?, data: {tokens:
\* {player0, player1, ...}}}.
BatchBody(errors, tokens) == [errors |-> errors, tokens |-> tokens]

RunBatchBodies(n) ==
    {BatchBody(<<>>, tokens) : tokens \in [1..n -> RunPages]}
    \cup {BatchBody(<<OtherError>>, <<>>),
          BatchBody(<<OtherError>>, [i \in 1..n |-> PageShort]),
          BatchBody(<<BudgetError>>, <<>>),
          BatchBody(<<BudgetError>>, [i \in 1..n |-> PageShort])}

\* The dates of the entries of a page that carry a deal identifier.
AuctionDates(token_prices) ==
    {token_prices[i].date :
        i \in {j \in 1..Len(token_prices) : token_prices[j].deal = "auction"}}

\* The dates of the entries of a page that carry none.
OtherDates(token_prices) ==
    {token_prices[i].date :
        i \in {j \in 1..Len(token_prices) : token_prices[j].deal # "auction"}}

\* Whether the upstream rejected the request for its complexity.
Rejected(body) ==
    \E i \in 1..Len(body.errors) : body.errors[i] = BudgetError

\* ------------------------------------------------------------------------
\* Output table
\* ------------------------------------------------------------------------

\* ordinal(n): the number and its suffix.
ordinal(n) ==
    [n |-> n,
     suffix |-> IF (n % 100) \in 11..13 THEN "th"
                ELSE CASE n % 10 = 1 -> "st"
                       [] n % 10 = 2 -> "nd"
                       [] n % 10 = 3 -> "rd"
                       [] OTHER -> "th"]

\* f"{p:.2f}": the units and the two decimals.
FormatPrice(p) ==
    [units |-> p.units, tenths |-> p.hundredths \div 10,
     hundredths |-> p.hundredths % 10]

MaxOf(S) == IF S = {} THEN 0 ELSE CHOOSE x \in S : \A y \in S : y <= x

\* The CSV of one position: the header and one line per row, the prices
\* formatted and padded with empty cells up to max_prices.
CsvTable(rows) ==
    LET max_prices == MaxOf({Len(rows[i][3]) : i \in 1..Len(rows)})
    IN  [header |-> [fixed |-> <<"player", "team">>,
                     ordinals |-> [n \in 1..max_prices |-> ordinal(n)]],
         lines |-> [i \in 1..Len(rows) |->
                      [player |-> rows[i][1],
                       team |-> rows[i][2],
                       prices |-> [j \in 1..Len(rows[i][3]) |->
                                      FormatPrice(rows[i][3][j])],
                       empty_cells |-> max_prices - Len(rows[i][3])]]]

NoCsv == [header |-> [fixed |-> <<>>, ordinals |-> <<>>], lines |-> <<>>]

\* ------------------------------------------------------------------------
\* Pacing: time.sleep(SLEEP_SECONDS) and the requests
\* ------------------------------------------------------------------------

\* What a stretch of code does to the upstream, in order: "sleep" is one
\* time.sleep(SLEEP_SECONDS), "request" one requests.post.

\* main(): if not first_request: time.sleep(SLEEP_SECONDS)
SleepBeforeBatch(main_first_request) ==
    IF ~main_first_request THEN <<"sleep">> ELSE << >>

\* Mutant of the fallback loop: no sleep before fetch_auction_prices.
SleepBeforeFallbackNone == << >>

\* main(), fallback loop: time.sleep(SLEEP_SECONDS) before each
\* fetch_auction_prices(slug)
SleepBeforeFallback == <<"sleep">>

\* fetch_auction_prices: if not first_request: time.sleep(SLEEP_SECONDS)
SleepBeforePage(page_first_request) ==
    IF ~page_first_request THEN <<"sleep">> ELSE << >>

\* The record of the waits and requests of a run:
\*   waited        a sleep has completed since the last request (or since
\*                 the start of the run),
\*   requested     a request has been issued in the run,
\*   unpaced       some request other than the first was issued with no
\*                 sleep since the request before it,
\*   firstWaited   the first request was issued after a sleep.
NoPace ==
    [waited |-> FALSE, requested |-> FALSE, unpaced |-> FALSE,
     firstWaited |-> FALSE]

RECURSIVE Paced(_, _)
Paced(p, events) ==
    IF events = << >>
    THEN p
    ELSE Paced(IF Head(events) = "sleep"
               THEN [p EXCEPT !.waited = TRUE]
               ELSE [waited |-> FALSE,
                     requested |-> TRUE,
                     unpaced |-> p.unpaced \/ (p.requested /\ ~p.waited),
                     firstWaited |-> p.firstWaited \/ (~p.requested /\ p.waited)],
               Tail(events))

\* ------------------------------------------------------------------------
\* State
\* ------------------------------------------------------------------------

\* Runs of the program in a behaviour.
MaxRuns == 2

\* Pages one pagination may request.
MaxPages == 4

VARIABLES
    \* main()
    pc,                 \* where the run is
    pos_i,              \* index of pos in POSITIONS
    batch_start,
    p_i,                \* index of p in batch
    batch_results,
    new_auctions,
    rows,
    first_request,
    api_calls,
    \* _process_player_results
    history,
    new_count,
    \* fetch_auction_prices
    results,
    to_cursor,
    prev_cursor,
    fap_first_request,
    \* the data directory
    files,              \* data/history/<slug>.json
    csv,                \* data/limited_<pos>.csv
    last_updated,       \* data/last_updated.txt: the run that wrote it, 0 if none
    \* history of the behaviour
    run,                \* the number of the current run
    pageLog,            \* the requests of the current pagination, each with
                        \* what the loop made of its response
    lastPage,           \* the last response of the pagination and the
                        \* records the loop appended for it
    persisted,          \* the last history each save_history completed
    pace,               \* the waits and requests of the run so far
    dealDates,          \* SpecDeals: per slug, the dates of the entries with
                        \* a deal id in the responses that were not rejected
    noDealDates,        \* SpecDeals: per slug, the dates of the entries
                        \* without one
    log,                \* SpecRerun: the responses of the first run
    snapshot,           \* SpecRerun: the history files when the run started
    \* SpecMerge: one call of the merge
    mPrev,              \* the history before the last merge
    mBatch,             \* the batch of the last merge
    mHist,              \* the history after it
    mCount,             \* the new_count it reported
    \* SpecBatch: one call of fetch_batch_auction_prices
    bSlugs,
    bBody,
    bOut,
    \* SpecGroups, SpecCalls: what one run asked of the upstream
    groups,             \* SpecGroups: per batch request, the group it was
                        \* for, whether the upstream rejected it, and the
                        \* players fetched individually since
    requests            \* SpecCalls: the number of requests.post so far

mainVars == <<pc, pos_i, batch_start, p_i, batch_results, new_auctions, rows,
              first_request, api_calls, history, new_count>>

fapVars == <<results, to_cursor, prev_cursor, fap_first_request>>

diskVars == <<files, csv, last_updated>>

traceVars == <<run, pageLog, lastPage, persisted, pace>>

dealVars == <<dealDates, noDealDates>>

rerunVars == <<log, snapshot>>

mergeVars == <<mPrev, mBatch, mHist, mCount>>

batchVars == <<bSlugs, bBody, bOut>>

callVars == <<groups, requests>>

vars == <<mainVars, fapVars, diskVars, traceVars, dealVars, rerunVars, mergeVars,
         batchVars, callVars>>

\* ------------------------------------------------------------------------
\* main(): the run over the roster
\* ------------------------------------------------------------------------

\* The next position after c whose player list is not empty (`if not
\* players: continue`), 0 when there is none.
NextPos(c) ==
    LET later == {d \in (c + 1)..Len(POSITIONS) : PlayersOf(POSITIONS[d]) # <<>>}
    IN  IF later = {} THEN 0 ELSE CHOOSE d \in later : \A e \in later : d <= e

Players == PlayersOf(POSITIONS[pos_i])

\* players[batch_start:batch_start + PLAYERS_PER_BATCH]
Batch ==
    SubSeq(Players, batch_start + 1,
           IF batch_start + PLAYERS_PER_BATCH < Len(Players)
           THEN batch_start + PLAYERS_PER_BATCH ELSE Len(Players))

BatchSlugs == [i \in 1..Len(Batch) |-> Batch[i].slug]

CurSlug == Batch[p_i].slug

\* Mutant of the branch on the batch's outcome: the fallback is never taken.
NeedsFallbackNever(out) == FALSE

\* any(v is None for v in batch_results.values())
NeedsFallback(out) == \E slug \in DOMAIN out : out[slug].is_none

PosSet == {POSITIONS[c] : c \in 1..Len(POSITIONS)}

\* lastPage before the first response of a pagination.
NoPage == [body |-> SingleBody(<< >>, << >>), kept |-> << >>]

MainInit ==
    /\ pc = IF NextPos(0) = 0 THEN "marker" ELSE "batch"
    /\ pos_i = NextPos(0)
    /\ batch_start = 0
    /\ p_i = 0
    /\ batch_results = << >>
    /\ new_auctions = << >>
    /\ rows = << >>
    /\ first_request = TRUE
    /\ api_calls = 0
    /\ history = << >>
    /\ new_count = 0

FapInit ==
    /\ results = << >>
    /\ to_cursor = NoCursor
    /\ prev_cursor = NoCursor
    /\ fap_first_request = TRUE

DiskInit ==
    /\ files = [slug \in Slugs |-> MissingFile]
    /\ csv = [pos \in PosSet |-> NoCsv]
    /\ last_updated = 0

TraceInit ==
    /\ run = 1
    /\ pageLog = << >>
    /\ lastPage = NoPage
    /\ persisted = [slug \in Slugs |-> << >>]
    /\ pace = NoPace

DealInit ==
    /\ dealDates = [slug \in Slugs |-> {}]
    /\ noDealDates = [slug \in Slugs |-> {}]

RerunInit ==
    /\ log = << >>
    /\ snapshot = [slug \in Slugs |-> MissingFile]

MergeInit ==
    /\ mPrev = << >>
    /\ mBatch = << >>
    /\ mHist = << >>
    /\ mCount = 0

BatchInit ==
    /\ bSlugs = << >>
    /\ bBody = BatchBody(<< >>, << >>)
    /\ bOut = << >>

CallInit ==
    /\ groups = << >>
    /\ requests = 0

Init ==
    /\ MainInit /\ FapInit /\ DiskInit /\ TraceInit
    /\ DealInit /\ RerunInit /\ MergeInit /\ BatchInit /\ CallInit

\* The locals of fetch_auction_prices at its entry.
FapEnter ==
    /\ results' = << >>
    /\ to_cursor' = NoCursor
    /\ prev_cursor' = NoCursor
    /\ fap_first_request' = TRUE
    /\ pageLog' = << >>
    /\ lastPage' = NoPage

\* One pass of the batch loop up to the branch on needs_fallback: the
\* batched request, its response `body`, and the dict built from it.
BatchRequest(body) ==
    /\ pc = "batch"
    /\ LET out == FetchBatch(BatchSlugs, body)
       IN  /\ first_request' = FALSE
           /\ batch_results' = out
           /\ api_calls' = api_calls + 1
           /\ p_i' = 1
           /\ IF NeedsFallback(out)
              THEN /\ pc' = "fetch"
                   /\ new_auctions' = << >>
              ELSE /\ pc' = "load"
                   /\ new_auctions' = out[BatchSlugs[1]].list
           /\ pace' = Paced(pace, SleepBeforeBatch(first_request)
                                     \o <<"request">>
                                     \o (IF NeedsFallback(out)
                                         THEN SleepBeforeFallback ELSE << >>))
    /\ FapEnter
    /\ UNCHANGED <<pos_i, batch_start, rows, history, new_count>>
    /\ UNCHANGED <<diskVars, run, persisted>>
    /\ UNCHANGED <<mergeVars, batchVars>>

\* Mutant of the loop body: the complexity error does not keep the entries
\* of its response from being read.
PageProcessedDespiteRejection(budget, token_prices) == token_prices # << >>

\* Whether the loop over token_prices is reached: not after the break on a
\* complexity error, nor after the break on an empty page.
PageProcessed(budget, token_prices) == ~budget /\ token_prices # << >>

\* One iteration of the while loop of fetch_auction_prices for the current
\* player: the request with to_cursor, its response `body`, and the loop
\* body down to the break or the cursor update.  On a break the function
\* returns and main() counts the call.
FetchPage(body) ==
    /\ pc = "fetch"
    /\ Len(pageLog) < MaxPages
    /\ LET token_prices == body.tokenPrices
           budget == HasComplexityError(body)
           seen   == PageProcessed(budget, token_prices)
           kept   == IF seen THEN PageKept(token_prices) ELSE << >>
           oldest_date == IF seen THEN OldestDate(token_prices) ELSE NoCursor
           break  == \/ budget
                     \/ token_prices = << >>
                     \/ EndOfData(token_prices)
                     \/ oldest_date = NoCursor
                     \/ Stalls(oldest_date, prev_cursor, to_cursor)
       IN  /\ fap_first_request' = FALSE
           /\ results' = results \o kept
           /\ pageLog' = Append(pageLog, [to |-> to_cursor,
                                          rejected |-> Rejected(body),
                                          size |-> Len(token_prices),
                                          oldest |-> oldest_date])
           /\ lastPage' = [body |-> body, kept |-> kept]
           /\ pace' = Paced(pace, SleepBeforePage(fap_first_request)
                                     \o <<"request">>)
           /\ IF break
              THEN /\ pc' = "load"
                   /\ new_auctions' = results \o kept
                   /\ api_calls' = api_calls + 1
                   /\ UNCHANGED <<to_cursor, prev_cursor>>
              ELSE /\ pc' = "fetch"
                   /\ prev_cursor' = to_cursor
                   /\ to_cursor' = oldest_date
                   /\ UNCHANGED <<new_auctions, api_calls>>
    /\ UNCHANGED <<pos_i, batch_start, p_i, batch_results, rows, first_request,
                   history, new_count>>
    /\ UNCHANGED <<diskVars, run, persisted>>
    /\ UNCHANGED <<mergeVars, batchVars>>

\* Mutant of the failure path: the exception is caught around the loops and
\* main() goes on to its last lines.
PropagatesCaught == "marker"

\* requests.post raises (timeout, connection error) or resp.raise_for_status()
\* raises (non-2xx), or json.load raises: nothing in the program catches it,
\* so it leaves main() and the process ends.
Propagates == "failed"

\* _process_player_results up to save_history: the prior history is loaded
\* and the new records are merged into it.  A history file that is no JSON
\* document makes json.load raise, which ends the run.  What the fetch left
\* behind (its locals, the list of new records) is not read again.
LoadAndMerge ==
    /\ pc = "load"
    /\ IF LoadRaises(files[CurSlug])
       THEN /\ pc' = Propagates
            /\ UNCHANGED <<history, new_count>>
       ELSE LET m == Merge(LoadHistory(files[CurSlug]), new_auctions)
            IN  /\ pc' = "save_open"
                /\ history' = m.history
                /\ new_count' = m.new_count
    /\ new_auctions' = << >>
    /\ FapEnter
    /\ UNCHANGED <<pos_i, batch_start, p_i, batch_results, rows,
                   first_request, api_calls>>
    /\ UNCHANGED <<diskVars, run, persisted, pace>>
    /\ UNCHANGED <<dealVars, callVars, rerunVars, mergeVars, batchVars>>

\* save_history: open(path, "w") creates or truncates the file.
SaveOpen ==
    /\ pc = "save_open"
    /\ pc' = "save_dump"
    /\ files' = [files EXCEPT ![CurSlug] = TruncatedFile]
    /\ UNCHANGED <<pos_i, batch_start, p_i, batch_results, new_auctions, rows,
                   first_request, api_calls, history, new_count>>
    /\ UNCHANGED <<fapVars, csv, last_updated, traceVars>>
    /\ UNCHANGED <<dealVars, callVars, rerunVars, mergeVars, batchVars>>

\* save_history: json.dump and the close of the file; then the row of the
\* player is appended and the loops move on to the next player (in the
\* fallback loop, with the sleep before its fetch), the next batch or the
\* CSV of the position.  new_count stays what the call
\* reported ("(N new)") until the next merge.
SaveDump ==
    /\ pc = "save_dump"
    /\ files' = [files EXCEPT ![CurSlug] = JsonDump(history)]
    /\ persisted' = [persisted EXCEPT ![CurSlug] = history]
    /\ rows' = Append(rows, <<name_from_slug(CurSlug), Batch[p_i].team,
                              SortedPrices(history)>>)
    /\ history' = << >>
    /\ FapEnter
    /\ IF p_i < Len(Batch)
       THEN /\ p_i' = p_i + 1
            /\ IF NeedsFallback(batch_results)
               THEN /\ pc' = "fetch"
                    /\ new_auctions' = << >>
                    /\ pace' = Paced(pace, SleepBeforeFallback)
               ELSE /\ pc' = "load"
                    /\ new_auctions' = batch_results[BatchSlugs[p_i + 1]].list
                    /\ pace' = pace
            /\ UNCHANGED <<batch_start, batch_results>>
       ELSE /\ p_i' = 0
            /\ batch_results' = << >>
            /\ new_auctions' = << >>
            /\ pace' = pace
            /\ IF batch_start + PLAYERS_PER_BATCH < Len(Players)
               THEN /\ batch_start' = batch_start + PLAYERS_PER_BATCH
                    /\ pc' = "batch"
               ELSE /\ batch_start' = batch_start
                    /\ pc' = "csv"
    /\ UNCHANGED <<pos_i, first_request, api_calls, new_count>>
    /\ UNCHANGED <<csv, last_updated, run>>
    /\ UNCHANGED <<dealVars, callVars, rerunVars, mergeVars, batchVars>>

\* The CSV of the position is written and the loop moves to the next
\* position that has players.
WriteCsv ==
    /\ pc = "csv"
    /\ csv' = [csv EXCEPT ![POSITIONS[pos_i]] = CsvTable(rows)]
    /\ IF NextPos(pos_i) = 0
       THEN /\ pc' = "marker"
            /\ UNCHANGED <<pos_i, rows>>
       ELSE /\ pc' = "batch"
            /\ pos_i' = NextPos(pos_i)
            /\ rows' = << >>
    /\ batch_start' = 0
    /\ UNCHANGED <<p_i, batch_results, new_auctions, first_request, api_calls,
                   history, new_count>>
    /\ UNCHANGED <<fapVars, files, last_updated, traceVars>>
    /\ UNCHANGED <<dealVars, callVars, rerunVars, mergeVars, batchVars>>

\* last_updated.txt is written and main() returns.
WriteMarker ==
    /\ pc = "marker"
    /\ pc' = "done"
    /\ last_updated' = run
    /\ UNCHANGED <<pos_i, batch_start, p_i, batch_results, new_auctions, rows,
                   first_request, api_calls, history, new_count>>
    /\ UNCHANGED <<fapVars, files, csv, traceVars>>
    /\ UNCHANGED <<dealVars, callVars, rerunVars, mergeVars, batchVars>>

\* The process is interrupted (killed) where it stands: what it held in
\* memory is gone, the data directory stays as it is.
Interrupt ==
    /\ pc \notin {"done", "failed", "killed"}
    /\ pc' = "killed"
    /\ pos_i' = 0
    /\ batch_start' = 0
    /\ p_i' = 0
    /\ batch_results' = << >>
    /\ new_auctions' = << >>
    /\ rows' = << >>
    /\ first_request' = TRUE
    /\ api_calls' = 0
    /\ history' = << >>
    /\ new_count' = 0
    /\ FapEnter
    /\ pace' = NoPace
    /\ UNCHANGED <<diskVars, run, persisted>>
    /\ UNCHANGED <<mergeVars, batchVars>>

\* The program is started again on the data directory the previous run
\* left.
Restart ==
    /\ pc \in {"done", "failed", "killed"}
    /\ run < MaxRuns
    /\ run' = run + 1
    /\ pc' = IF NextPos(0) = 0 THEN "marker" ELSE "batch"
    /\ pos_i' = NextPos(0)
    /\ batch_start' = 0
    /\ p_i' = 0
    /\ batch_results' = << >>
    /\ new_auctions' = << >>
    /\ rows' = << >>
    /\ first_request' = TRUE
    /\ api_calls' = 0
    /\ history' = << >>
    /\ new_count' = 0
    /\ FapEnter
    /\ pace' = NoPace
    /\ UNCHANGED <<diskVars, persisted>>
    /\ UNCHANGED <<mergeVars, batchVars>>

\* ------------------------------------------------------------------------
\* Spec: runs of the program against an arbitrary upstream
\* ------------------------------------------------------------------------

RunBatch ==
    /\ pc = "batch"
    /\ \E body \in RunBatchBodies(Len(Batch)) : BatchRequest(body)
    /\ UNCHANGED <<dealVars, callVars, rerunVars>>

RunPage ==
    /\ \E body \in RunSingleBodies : FetchPage(body)
    /\ UNCHANGED <<dealVars, callVars, rerunVars>>

Kill == Interrupt /\ UNCHANGED <<dealVars, callVars, rerunVars>>

StartRun == Restart /\ UNCHANGED <<dealVars, callVars, rerunVars>>

Next ==
    \/ RunBatch
    \/ RunPage
    \/ LoadAndMerge
    \/ SaveOpen
    \/ SaveDump
    \/ WriteCsv
    \/ WriteMarker
    \/ Kill
    \/ StartRun

\* Up to MaxRuns runs against an upstream that answers each request with
\* any of the run responses; a run may be interrupted at any step.
Spec == Init /\ [][Next]_vars

\* ------------------------------------------------------------------------
\* SpecFaults: one run over a data directory that may hold truncated files,
\* against an upstream whose requests may fail
\* ------------------------------------------------------------------------

\* The batched request fails.
BatchRequestFails ==
    /\ pc = "batch"
    /\ pc' = Propagates
    /\ first_request' = FALSE
    /\ pace' = Paced(pace, SleepBeforeBatch(first_request) \o <<"request">>)
    /\ UNCHANGED <<pos_i, batch_start, p_i, batch_results, new_auctions, rows,
                   api_calls, history, new_count>>
    /\ UNCHANGED <<fapVars, diskVars, run, pageLog, lastPage, persisted>>
    /\ UNCHANGED <<dealVars, callVars, rerunVars, mergeVars, batchVars>>

\* A request of the pagination fails.
PageRequestFails ==
    /\ pc = "fetch"
    /\ Len(pageLog) < MaxPages
    /\ pc' = Propagates
    /\ fap_first_request' = FALSE
    /\ pace' = Paced(pace, SleepBeforePage(fap_first_request) \o <<"request">>)
    /\ UNCHANGED <<pos_i, batch_start, p_i, batch_results, new_auctions, rows,
                   first_request, api_calls, history, new_count>>
    /\ UNCHANGED <<results, to_cursor, prev_cursor>>
    /\ UNCHANGED <<diskVars, run, pageLog, lastPage, persisted>>
    /\ UNCHANGED <<dealVars, callVars, rerunVars, mergeVars, batchVars>>

\* The data directory at the start of the run: each history file is missing
\* or was left truncated by an interrupted save.  snapshot keeps it.
InitFaults ==
    /\ MainInit /\ FapInit /\ TraceInit
    /\ DealInit /\ MergeInit /\ BatchInit /\ CallInit
    /\ files \in [Slugs -> {MissingFile, TruncatedFile}]
    /\ csv = [pos \in PosSet |-> NoCsv]
    /\ last_updated = 0
    /\ log = << >>
    /\ snapshot = files

NextFaults ==
    \/ RunBatch
    \/ RunPage
    \/ BatchRequestFails
    \/ PageRequestFails
    \/ LoadAndMerge
    \/ SaveOpen
    \/ SaveDump
    \/ WriteCsv
    \/ WriteMarker

SpecFaults == InitFaults /\ [][NextFaults]_vars

\* ------------------------------------------------------------------------
\* SpecDeals: runs with a record of what the upstream sent for each player
\* ------------------------------------------------------------------------

\* What a response that was not rejected adds to the record: for each slug
\* of the request, the dates found in its page.
Received(seen, slugs, dates) ==
    [slug \in Slugs |->
        seen[slug] \cup
        UNION {dates[i] : i \in {j \in 1..Len(slugs) : slugs[j] = slug}}]

DealsBatch ==
    /\ pc = "batch"
    /\ \E body \in RunBatchBodies(Len(Batch)) :
          LET pages == [i \in 1..Len(BatchSlugs) |-> TokensGet(body, i)]
          IN  /\ BatchRequest(body)
              /\ IF Rejected(body)
                 THEN UNCHANGED dealVars
                 ELSE /\ dealDates' =
                            Received(dealDates, BatchSlugs,
                                     [i \in DOMAIN pages |-> AuctionDates(pages[i])])
                      /\ noDealDates' =
                            Received(noDealDates, BatchSlugs,
                                     [i \in DOMAIN pages |-> OtherDates(pages[i])])
    /\ UNCHANGED <<rerunVars, callVars>>

DealsPage ==
    /\ pc = "fetch"
    /\ \E body \in RunSingleBodies :
          /\ FetchPage(body)
          /\ IF Rejected(body)
             THEN UNCHANGED dealVars
             ELSE /\ dealDates' =
                        Received(dealDates, <<CurSlug>>,
                                 <<AuctionDates(body.tokenPrices)>>)
                  /\ noDealDates' =
                        Received(noDealDates, <<CurSlug>>,
                                 <<OtherDates(body.tokenPrices)>>)
    /\ UNCHANGED <<rerunVars, callVars>>

NextDeals ==
    \/ DealsBatch
    \/ DealsPage
    \/ LoadAndMerge
    \/ SaveOpen
    \/ SaveDump
    \/ WriteCsv
    \/ WriteMarker
    \/ StartRun

\* Up to MaxRuns runs, each started when the one before has completed.
SpecDeals == Init /\ [][NextDeals]_vars

\* ------------------------------------------------------------------------
\* SpecRerun: two runs in succession, the second against the same responses
\* ------------------------------------------------------------------------

\* The same sale at another amount.
PageRepriced == << Tp(2, 250, "auction") >>

RerunSingleBodies ==
    {SingleBody(<< >>, page) : page \in {PageShort, PageRepriced, PageFull}}

RerunBatchBodies(n) ==
    {BatchBody(<< >>, tokens) : tokens \in [1..n -> {PageRepriced, PageFull}]}
    \cup {BatchBody(<<BudgetError>>, << >>)}

\* The first run records each response; the second run is answered from
\* the record, in order.
RerunBatch ==
    /\ pc = "batch"
    /\ IF run = 1
       THEN \E body \in RerunBatchBodies(Len(Batch)) :
                /\ BatchRequest(body)
                /\ log' = Append(log, body)
       ELSE /\ log # << >>
            /\ BatchRequest(Head(log))
            /\ log' = Tail(log)
    /\ UNCHANGED <<snapshot, dealVars, callVars>>

RerunPage ==
    /\ pc = "fetch"
    /\ IF run = 1
       THEN \E body \in RerunSingleBodies :
                /\ FetchPage(body)
                /\ log' = Append(log, body)
       ELSE /\ log # << >>
            /\ FetchPage(Head(log))
            /\ log' = Tail(log)
    /\ UNCHANGED <<snapshot, dealVars, callVars>>

\* The second run starts when the first has completed.
RerunStart ==
    /\ run = 1
    /\ pc = "done"
    /\ Restart
    /\ snapshot' = files
    /\ UNCHANGED <<log, dealVars, callVars>>

NextRerun ==
    \/ RerunBatch
    \/ RerunPage
    \/ LoadAndMerge
    \/ SaveOpen
    \/ SaveDump
    \/ WriteCsv
    \/ WriteMarker
    \/ RerunStart

SpecRerun == Init /\ [][NextRerun]_vars

\* ------------------------------------------------------------------------
\* SpecGroups: one run, with the record of what was asked for each group
\* ------------------------------------------------------------------------

\* The batched request of the current group, recorded with the upstream's
\* verdict on it.
GroupsBatch ==
    /\ pc = "batch"
    /\ \E body \in RunBatchBodies(Len(Batch)) :
           /\ BatchRequest(body)
           /\ groups' = Append(groups, [pos |-> pos_i, start |-> batch_start,
                                        rejected |-> Rejected(body),
                                        calls |-> << >>])
    /\ UNCHANGED <<requests, dealVars, rerunVars>>

\* One request of fetch_auction_prices; the first request of a call records
\* the player the call is for.
GroupsPage ==
    /\ \E body \in RunSingleBodies : FetchPage(body)
    /\ groups' = IF pageLog = << >>
                 THEN [groups EXCEPT ![Len(groups)].calls = Append(@, CurSlug)]
                 ELSE groups
    /\ UNCHANGED <<requests, dealVars, rerunVars>>

NextGroups ==
    \/ GroupsBatch
    \/ GroupsPage
    \/ LoadAndMerge
    \/ SaveOpen
    \/ SaveDump
    \/ WriteCsv
    \/ WriteMarker

SpecGroups == Init /\ [][NextGroups]_vars

\* ------------------------------------------------------------------------
\* SpecCalls: one run, with the count of the requests it made
\* ------------------------------------------------------------------------

CallsBatch ==
    /\ pc = "batch"
    /\ \E body \in RunBatchBodies(Len(Batch)) : BatchRequest(body)
    /\ requests' = requests + 1
    /\ UNCHANGED <<groups, dealVars, rerunVars>>

CallsPage ==
    /\ \E body \in RunSingleBodies : FetchPage(body)
    /\ requests' = requests + 1
    /\ UNCHANGED <<groups, dealVars, rerunVars>>

NextCalls ==
    \/ CallsBatch
    \/ CallsPage
    \/ LoadAndMerge
    \/ SaveOpen
    \/ SaveDump
    \/ WriteCsv
    \/ WriteMarker

SpecCalls == Init /\ [][NextCalls]_vars

\* ------------------------------------------------------------------------
\* SpecPaging: one fallback pagination against any sequence of responses
\* ------------------------------------------------------------------------

\* The entries of the pages: a sale or not, at any date, and a sale that
\* has no date.  The amount plays no part in the pagination.
PagingEntries ==
    {Tp(date, 100, deal) : date \in Dates, deal \in {"null", "auction"}}
    \cup {Tp(NoDate, 100, "auction")}

\* A page of n entries: the last is `last`, the others `first`.
PagingPage2(n, first, last) == [i \in 1..n |-> IF i < n THEN first ELSE last]

\* The pages: the pages of every length up to BATCH_SIZE whose entries are
\* all the same, and the full pages of sales of two different dates, in
\* either order.
PagingPages ==
    {PagingPage2(n, tp, tp) : n \in 0..BATCH_SIZE, tp \in PagingEntries}
    \cup {PagingPage2(BATCH_SIZE, Tp(d1, 100, "auction"), Tp(d2, 100, "auction")) :
            d1 \in Dates, d2 \in Dates}

\* The responses: every page without error; the empty page and one full
\* page with the complexity error; the empty page, one short page and one
\* full page with another error.
PagingBodies ==
    {SingleBody(<< >>, page) : page \in PagingPages}
    \cup {SingleBody(<<BudgetError>>, page) : page \in {PageEmpty, PageFull}}
    \cup {SingleBody(<<OtherError>>, page) :
            page \in {PageEmpty, PageShort, PageFull}}

\* The first batch is rejected, which starts the pagination of its first
\* player.
PagingReject ==
    /\ pc = "batch"
    /\ BatchRequest(BatchBody(<<BudgetError>>, << >>))
    /\ UNCHANGED <<dealVars, callVars, rerunVars>>

PagingPage ==
    /\ \E body \in PagingBodies : FetchPage(body)
    /\ UNCHANGED <<dealVars, callVars, rerunVars>>

NextPaging ==
    \/ PagingReject
    \/ PagingPage

SpecPaging == Init /\ [][NextPaging]_vars

\* ------------------------------------------------------------------------
\* SpecBatch: fetch_batch_auction_prices as a function of (slugs, body)
\* ------------------------------------------------------------------------

\* Errors in a response per batch call.
MaxErrors == 2

ErrorOf(chars) == [has_message |-> TRUE, message |-> chars]

\* Errors whose message contains "complexity" in some mix of cases.
BudgetErrors ==
    {BudgetError,
     ErrorOf(<<"c", "o", "m", "p", "l", "e", "x", "i", "t", "y">>),
     ErrorOf(<<"C", "O", "M", "P", "L", "E", "X", "I", "T", "Y", "!">>)}

\* Errors whose message does not: another message, a prefix of the word,
\* and an error without a message.
OtherErrors ==
    {OtherError,
     ErrorOf(<<"c", "o", "m", "p", "l", "e", "x">>),
     [has_message |-> FALSE, message |-> << >>]}

BatchCallBodies ==
    {BatchBody(errors, tokens) :
        errors \in SeqsUpTo(BudgetErrors \cup OtherErrors, MaxErrors),
        tokens \in SeqsUpTo({PageEmpty, PageShort, PageNoDeal}, PLAYERS_PER_BATCH)}

BatchCallSlugs == SeqsUpTo(Slugs, PLAYERS_PER_BATCH) \ {<< >>}

\* One call, from the initial state.
BatchCall ==
    /\ bSlugs = << >>
    /\ \E slugs \in BatchCallSlugs, body \in BatchCallBodies :
          /\ bSlugs' = slugs
          /\ bBody' = body
          /\ bOut' = FetchBatch(slugs, body)
    /\ UNCHANGED <<mainVars, fapVars, diskVars, traceVars, dealVars, callVars, rerunVars, mergeVars>>

SpecBatch == Init /\ [][BatchCall]_vars

\* ------------------------------------------------------------------------
\* SpecMerge: the merge as a function of (history, batch)
\* ------------------------------------------------------------------------

\* (date, price_usd) tuples as _parse_token_prices and the paging loop
\* build them.  The merge treats the key "" like any other key, so the
\* batches of SpecMerge are drawn over the dates proper.
Records == Dates \X Prices

Batches == SeqsUpTo(Records, MaxBatchLen)

\* The histories a file may hold: what the merge makes of a batch, from the
\* empty history of a new player.
Histories == {Merge(<< >>, batch).history : batch \in Batches}

\* One call of the merge, on any history and any batch.
MergeStep ==
    /\ mPrev = << >> /\ mBatch = << >> /\ mHist = << >>
    /\ \E h \in Histories, batch \in Batches :
          LET m == Merge(h, batch)
          IN  /\ mPrev' = h
              /\ mBatch' = batch
              /\ mHist' = m.history
              /\ mCount' = m.new_count
    /\ UNCHANGED <<mainVars, fapVars, diskVars, traceVars, dealVars, callVars, rerunVars, batchVars>>

SpecMerge == Init /\ [][MergeStep]_vars

\* The dates of a batch, and the price of the last record of a batch for a
\* date (the one that remains after the loop has run over the batch).
BatchDates(batch) == {batch[i][1] : i \in 1..Len(batch)}

LastPrice(batch, date) ==
    LET last == CHOOSE i \in 1..Len(batch) :
                    /\ batch[i][1] = date
                    /\ \A j \in (i + 1)..Len(batch) : batch[j][1] # date
    IN  batch[last][2]

\* C1 - Merge is idempotent: merging the batch of the last merge again into
\* its result leaves the history as it is (same keys, same amounts, same key
\* order) and reports zero new records.
MergeIdempotent ==
    LET again == Merge(mHist, mBatch)
    IN  /\ again.history = mHist
        /\ again.new_count = 0

\* A merge that inserted a new key and also met a key it already had, with
\* another amount.
MergeIdempotentWitness ==
    /\ mCount > 0
    /\ \E k \in DictKeys(mPrev) \cap BatchDates(mBatch) :
           DictGet(mPrev, k) # DictGet(mHist, k)

\* C2 as claimed - a record whose date is already a key is skipped: every
\* key of the history before the merge keeps its amount, whatever the batch
\* carries for it, and such a record is not counted as new.
MergeSkipsExistingKeys ==
    /\ \A k \in DictKeys(mPrev) :
           DictHas(mHist, k) /\ DictGet(mHist, k) = DictGet(mPrev, k)
    /\ mCount = Cardinality(BatchDates(mBatch) \ DictKeys(mPrev))

\* C2 as amended - a record whose date is already a key overwrites the
\* amount and is not counted as new: every key of the history before the
\* merge is still a key at the same position; it keeps its amount when the
\* batch has no record for it and takes the amount of the batch's last
\* record for it otherwise; new_count is the number of distinct dates of
\* the batch that were not keys before.
MergeOverwritesExistingKeys ==
    /\ Len(mHist) >= Len(mPrev)
    /\ \A i \in 1..Len(mPrev) :
           /\ mHist[i][1] = mPrev[i][1]
           /\ mHist[i][2] = IF mPrev[i][1] \in BatchDates(mBatch)
                            THEN LastPrice(mBatch, mPrev[i][1])
                            ELSE mPrev[i][2]
    /\ mCount = Cardinality(BatchDates(mBatch) \ DictKeys(mPrev))

\* A merge whose batch carried another amount for a key the history had.
MergeOverwritesWitness ==
    \E k \in DictKeys(mPrev) \cap BatchDates(mBatch) :
        /\ DictGet(mPrev, k) # LastPrice(mBatch, k)
        /\ DictGet(mHist, k) = LastPrice(mBatch, k)

\* Merging r1 then r2 into h, as a history.
MergeTwo(h, r1, r2) == Merge(Merge(h, r1).history, r2).history

\* The batch of the call (R1) and another batch r2 merged into the history
\* of the call in both orders give the same mapping.  mHist is already the
\* history with R1 merged.
SameEitherOrder(r2) ==
    DictEq(Merge(mHist, r2).history, MergeTwo(mPrev, r2, mBatch))

\* C3 as claimed - Merge is commutative: for the history before the last
\* merge, its batch R1 and any batch R2, merging R1 then R2 yields the same
\* history (as a mapping) as merging R2 then R1.
MergeCommutative ==
    \A r2 \in Batches : SameEitherOrder(r2)

\* Two batches agree when, for every date both carry, their last records
\* for that date carry the same amount.
BatchesAgree(r1, r2) ==
    \A d \in BatchDates(r1) \cap BatchDates(r2) :
        LastPrice(r1, d) = LastPrice(r2, d)

\* C3 as amended - Merge is commutative on batches that agree on the dates
\* they share: merging R1 then R2 yields the same mapping (keys and
\* amounts; the key order may differ) as merging R2 then R1.
MergeCommutativeOnAgreeingBatches ==
    \A r2 \in Batches :
        BatchesAgree(mBatch, r2) => SameEitherOrder(r2)

\* A merge into a non-empty history whose batch shares a date with another,
\* different batch that agrees with it.
MergeCommutativeWitness ==
    /\ mPrev # <<>>
    /\ mHist = Merge(mPrev, mBatch).history
    /\ \E r2 \in Batches :
           /\ r2 # mBatch
           /\ BatchDates(r2) \cap BatchDates(mBatch) # {}
           /\ BatchDates(r2) # BatchDates(mBatch)
           /\ BatchesAgree(mBatch, r2)

\* ------------------------------------------------------------------------
\* Histories on disk (Spec)
\* ------------------------------------------------------------------------

\* The slug of the player whose history was saved last in the current run.
LastSaved == CHOOSE s \in Slugs : name_from_slug(s) = rows[Len(rows)][1]

\* C4 - Entity histories only grow: at every step of every run, whatever the
\* upstream answers and wherever a run is interrupted, the key set of the
\* history a save completes contains every key of the version persisted
\* before it for the same slug.
HistoriesOnlyGrow ==
    [][\A s \in Slugs : DictKeys(persisted[s]) \subseteq DictKeys(persisted'[s])]_vars

\* In the second run a save has completed over a prior version that had
\* keys, and added new ones to it.
HistoriesOnlyGrowWitness ==
    /\ run = 2
    /\ pc \in {"batch", "fetch", "load", "csv"}
    /\ rows # << >>
    /\ new_count > 0
    /\ Len(persisted[LastSaved]) > new_count
    /\ files[LastSaved] = JsonDump(persisted[LastSaved])

\* C5 as claimed - Persist is atomic: at every point of every run, the file
\* of each slug is missing (nothing was persisted yet) or holds the complete
\* document of the last persisted version, which the next run can load.
HistoryFilesAlwaysComplete ==
    \A s \in Slugs :
        /\ ~LoadRaises(files[s])
        /\ \/ files[s] = MissingFile /\ persisted[s] = << >>
           \/ files[s] = JsonDump(persisted[s])

\* ------------------------------------------------------------------------
\* Two runs in succession (SpecRerun)
\* ------------------------------------------------------------------------

\* C6 - Re-run idempotence: in a second run that follows a completed first
\* run and gets the same responses in the same order, every merge reports
\* zero new records, and when the second run has completed every history
\* file is what it was when the second run started (same keys, same
\* amounts, same key order).
RerunIdempotent ==
    run = 2 =>
        /\ new_count = 0
        /\ pc = "done" => files = snapshot

\* The second run has completed, on both paths (the log held a rejected
\* batch), over files of which one holds several keys.
RerunIdempotentWitness ==
    /\ run = 2
    /\ pc = "done"
    /\ log = << >>
    /\ last_updated = 2
    /\ \A s \in Slugs : files[s].kind = "complete"
    /\ \E s \in Slugs : Len(files[s].doc) >= 2
    /\ \E s \in Slugs : files[s].doc = << <<2, PriceUsd(250)>> >>

\* ------------------------------------------------------------------------
\* One pagination (SpecPaging)
\* ------------------------------------------------------------------------

\* The j-th response of the pagination was not rejected, was BATCH_SIZE
\* long and gave a candidate cursor.
FullPage(j) ==
    /\ ~pageLog[j].rejected
    /\ pageLog[j].size = BATCH_SIZE
    /\ pageLog[j].oldest # NoCursor

\* The candidate cursors of the full pages so far decrease strictly.
CursorsDecrease ==
    \A j \in 2..Len(pageLog) :
        FullPage(j) => pageLog[j].oldest < pageLog[j - 1].oldest

\* C7 - Pagination terminates: a response that is rejected or shorter than
\* BATCH_SIZE is the last one (the function has returned and no request
\* follows it), so the requests number at most the pages up to the first
\* short one; and while the candidate cursors decrease strictly the loop
\* is never cut by the page bound of the model, it ends by itself.
PaginationStopsAtShortPage ==
    /\ \A j \in 1..Len(pageLog) :
           (pageLog[j].rejected \/ pageLog[j].size < BATCH_SIZE) =>
               (j = Len(pageLog) /\ pc = "load")
    /\ (CursorsDecrease /\ pc = "fetch") => Len(pageLog) < MaxPages

\* Full pages with strictly decreasing candidates, then a short page that
\* is not empty: the function returned after it.
PaginationStopsWitness ==
    /\ Len(pageLog) = 3
    /\ CursorsDecrease
    /\ \A j \in 1..2 : FullPage(j)
    /\ pageLog[2].oldest < pageLog[1].oldest
    /\ pageLog[Len(pageLog)].size \in 1..(BATCH_SIZE - 1)
    /\ ~pageLog[Len(pageLog)].rejected
    /\ pc = "load"

BatchUniformFallback ==
    bSlugs # << >> =>
        /\ DOMAIN bOut = SlugsOf(bSlugs)
        /\ IF \E i \in 1..Len(bBody.errors) : bBody.errors[i] \in BudgetErrors
           THEN \A slug \in DOMAIN bOut : bOut[slug].is_none
           ELSE \A slug \in DOMAIN bOut : ~bOut[slug].is_none

\* A call for two slugs whose response carries data for both and two
\* errors, the second of which says COMPLEXITY in capitals: both get None.
BatchUniformFallbackWitness ==
    /\ Len(bSlugs) = 2
    /\ bSlugs[1] # bSlugs[2]
    /\ Len(bBody.errors) = 2
    /\ bBody.errors[1] \in OtherErrors
    /\ bBody.errors[2] =
          ErrorOf(<<"C", "O", "M", "P", "L", "E", "X", "I", "T", "Y", "!">>)
    /\ bBody.tokens = <<PageShort, PageShort>>
    /\ \A slug \in DOMAIN bOut : bOut[slug] = NoneValue

\* ------------------------------------------------------------------------
\* Deal filtering (Spec)
\* ------------------------------------------------------------------------

\* Every entry a page may hold.
AllEntries ==
    {Tp(date, usdCents, deal) :
        date \in Dates \cup {NoDate}, usdCents \in Amounts, deal \in DealKinds}

\* C10 - Deal filtering: every key of a history file is the date of an
\* entry with a deal identifier that a response (batch or single, not
\* rejected) carried for that slug; the records the paging loop appended for
\* its last response are the records _parse_token_prices keeps of the same
\* page; and of any single entry both keep the same, which is nothing when
\* the entry has no deal identifier.
DealFiltering ==
    /\ \A s \in Slugs :
           /\ DictKeys(files[s].doc) \subseteq dealDates[s]
           /\ DictKeys(persisted[s]) \subseteq dealDates[s]
    /\ DictKeys(history) \subseteq UNION {dealDates[s] : s \in Slugs}
    /\ ~HasComplexityError(lastPage.body) =>
           lastPage.kept = ParseTokenPrices(lastPage.body.tokenPrices)
    /\ \A tp \in AllEntries :
           /\ ParseTokenPrices(<<tp>>) = PageKept(<<tp>>)
           /\ tp.deal # "auction" => PageKept(<<tp>>) = << >>

\* The first batch of a run succeeded and brought the first goalkeeper
\* nothing but an observation without deal identifier: the history saved
\* for that player is empty.  The second batch was rejected, and the last
\* page of the pagination that followed was such an observation too:
\* nothing of it was kept.
DealFilteringWitness ==
    /\ run = 1
    /\ pc = "load"
    /\ batch_start = PLAYERS_PER_BATCH
    /\ NeedsFallback(batch_results)
    /\ lastPage.body = SingleBody(<< >>, PageNoDeal)
    /\ lastPage.kept = << >>
    /\ new_auctions = << >>
    /\ noDealDates[CurSlug] # {}
    /\ LET first == PlayersOf(POSITIONS[pos_i])[1].slug
       IN  /\ noDealDates[first] # {}
           /\ dealDates[first] = {}
           /\ files[first] = JsonDump(<< >>)

\* ------------------------------------------------------------------------
\* Pacing (Spec)
\* ------------------------------------------------------------------------

\* C11 - Request pacing: at every point of every run, no request other than
\* the first of the run has been issued without a sleep between it and the
\* request before it, and the first request of the run was issued with no
\* sleep before it.
RequestsArePaced ==
    /\ ~pace.unpaced
    /\ ~pace.firstWaited

\* A run has issued a batch request that was rejected, has fetched and
\* saved the first player of the group on the fallback path, and is about
\* to request the first page of the next player, after the sleep of the
\* fallback loop.
RequestsArePacedWitness ==
    /\ pc = "fetch"
    /\ p_i = 2
    /\ pageLog = << >>
    /\ Len(rows) = 1
    /\ pace.requested
    /\ pace.waited
    /\ api_calls = 2

\* ------------------------------------------------------------------------
\* Failures (SpecFaults)
\* ------------------------------------------------------------------------

RECURSIVE RosterFrom(_)
\* The slugs of the roster from position c on, in the order main() takes
\* them.
RosterFrom(c) ==
    IF c > Len(POSITIONS)
    THEN << >>
    ELSE [i \in 1..Len(PlayersOf(POSITIONS[c])) |->
             PlayersOf(POSITIONS[c])[i].slug] \o RosterFrom(c + 1)

Roster == RosterFrom(1)

\* While a player or a batch is being handled (and where the run failed):
\* the number of players of the roster handled before it.
Processed ==
    (Len(Roster) - Len(RosterFrom(pos_i)))
        + batch_start + (IF p_i = 0 THEN 0 ELSE p_i - 1)

\* Where the run failed: the number of players whose fetch or merge failed,
\* the whole group for a batch request and one player otherwise.
FailedHere == IF p_i = 0 THEN Len(Batch) ELSE 1

\* C12 as claimed - Failure isolation: when a fetch or a merge has failed,
\* every player of the roster after the ones it failed for has still been
\* processed in the run: its history file is saved.
FailureIsolated ==
    pc = "failed" =>
        \A i \in (Processed + FailedHere + 1)..Len(Roster) :
            files[Roster[i]].kind = "complete"

\* C12 as amended - A failure ends the run where it happens: when a request
\* has failed or a history file could not be parsed, no player from the
\* failing one on has been processed (its file is what it was when the run
\* started, it has no row), the CSV of the category and of the later ones
\* is not written; and at no point of a run is a file touched of a player
\* that comes after one whose history file cannot be parsed.
RunStopsAtFailure ==
    /\ pc = "failed" =>
           /\ \A i \in (Processed + 1)..Len(Roster) :
                  files[Roster[i]] = snapshot[Roster[i]]
           /\ Len(rows) = batch_start + (IF p_i = 0 THEN 0 ELSE p_i - 1)
           /\ \A c \in pos_i..Len(POSITIONS) : csv[POSITIONS[c]] = NoCsv
    /\ \A i \in 1..Len(Roster) :
           snapshot[Roster[i]] = TruncatedFile =>
               \A j \in (i + 1)..Len(Roster) :
                   files[Roster[j]] = snapshot[Roster[j]]

\* The run failed at the second player of the roster, whose file cannot be
\* parsed, after it saved the first; two players remain untouched.
RunStopsAtFailureWitness ==
    /\ pc = "failed"
    /\ Processed = 1
    /\ snapshot[Roster[2]] = TruncatedFile
    /\ files[Roster[1]].kind = "complete"
    /\ Len(Roster) >= 4
    /\ \A i \in 3..Len(Roster) : files[Roster[i]] = MissingFile

\* C13 - Fatal abort: when the run has failed, nothing more happens in it
\* (no request, no category), the marker is not written, and every file
\* saved before the failure holds the history it was saved with; the marker
\* is written only at the end of a run that saved every player and wrote the
\* CSV of every category that has players.
FatalAbort ==
    /\ pc = "failed" =>
           /\ ~ENABLED NextFaults
           /\ last_updated = 0
           /\ \A i \in 1..Processed :
                  files[Roster[i]] = JsonDump(persisted[Roster[i]])
    /\ last_updated # 0 =>
           /\ pc = "done"
           /\ \A s \in Slugs : files[s] = JsonDump(persisted[s])
           /\ \A c \in 1..Len(POSITIONS) :
                  PlayersOf(POSITIONS[c]) # << >> => csv[POSITIONS[c]] # NoCsv

\* No file was truncated; the first category was completed and its CSV
\* written; then the batch request of the next category failed.
FatalAbortWitness ==
    /\ pc = "failed"
    /\ \A s \in Slugs : snapshot[s] = MissingFile
    /\ p_i = 0
    /\ pos_i > 1
    /\ csv[POSITIONS[1]] # NoCsv
    /\ \E s \in Slugs : Len(files[s].doc) >= 2
    /\ pace.requested

\* C19 - A malformed history file is fatal and never replaced: a file that
\* could not be parsed when the run started is never written in the run and
\* the run never completes; a save is only ever under way for a player whose
\* file was missing, and then the history being saved was built from the
\* empty history (every key of it was counted as new).
MalformedHistoryIsFatal ==
    /\ \A s \in Slugs :
           snapshot[s] = TruncatedFile =>
               /\ files[s] = TruncatedFile
               /\ persisted[s] = << >>
               /\ pc \notin {"marker", "done"}
    /\ pc \in {"save_open", "save_dump"} =>
           /\ snapshot[CurSlug] = MissingFile
           /\ new_count = Len(history)

\* The run saved a first player whose file was missing, with records, and
\* then failed loading the truncated file of the second, for which the
\* batch had brought records.
MalformedHistoryWitness ==
    /\ pc = "failed"
    /\ p_i = 2
    /\ ~NeedsFallback(batch_results)
    /\ batch_results[CurSlug].list # << >>
    /\ snapshot[CurSlug] = TruncatedFile
    /\ files[CurSlug] = TruncatedFile
    /\ snapshot[Roster[1]] = MissingFile
    /\ Len(files[Roster[1]].doc) >= 1

\* ------------------------------------------------------------------------
\* The output table
\* ------------------------------------------------------------------------

\* The number of keys of the document that sort before its k-th key.
KeysBefore(doc, k) ==
    Cardinality({m \in 1..Len(doc) : doc[m][1] < doc[k][1]})

\* The table of position c has the shape the histories on disk call for.
TableShape(c) ==
    LET t == csv[POSITIONS[c]]
        P == PlayersOf(POSITIONS[c])
        columns == MaxOf({Len(files[P[i].slug].doc) : i \in 1..Len(P)})
    IN  /\ Len(t.lines) = Len(P)
        /\ t.header.fixed = <<"player", "team">>
        /\ Len(t.header.ordinals) = columns
        /\ \A n \in 1..columns : t.header.ordinals[n].n = n
        /\ \A i \in 1..Len(P) :
               LET doc == files[P[i].slug].doc
                   line == t.lines[i]
               IN  /\ line.player = name_from_slug(P[i].slug)
                   /\ line.team = P[i].team
                   /\ Len(line.prices) = Len(doc)
                   /\ \A k \in 1..Len(doc) :
                          line.prices[KeysBefore(doc, k) + 1]
                              = FormatPrice(doc[k][2])
                   /\ line.empty_cells = columns - Len(doc)

\* C14 - Output table shape: once a run has written its last table, the
\* table of every category that has players holds one row per player of the
\* category, in roster order; it has as many price columns as the longest
\* history on disk among these players; each row holds the formatted amounts
\* of the player's whole history on disk by ascending date, and then empty
\* cells only, up to the number of columns.
OutputTableShape ==
    pc \in {"marker", "done"} =>
        \A c \in 1..Len(POSITIONS) :
            PlayersOf(POSITIONS[c]) # << >> => TableShape(c)

\* A second run completed; the first category's table has a row without any
\* price and a row of two prices whose history was not built in date order,
\* and a row that is padded.
OutputTableShapeWitness ==
    /\ pc = "done"
    /\ run = 2
    /\ LET t == csv[POSITIONS[1]]
           P == PlayersOf(POSITIONS[1])
       IN  /\ \E i \in 1..Len(P) :
                  /\ t.lines[i].prices = << >>
                  /\ t.lines[i].empty_cells = 2
           /\ \E i \in 1..Len(P) :
                  /\ Len(files[P[i].slug].doc) = 2
                  /\ files[P[i].slug].doc[1][1] > files[P[i].slug].doc[2][1]
                  /\ t.lines[i].prices[1] # t.lines[i].prices[2]
           /\ \E i \in 1..Len(P) : Len(t.lines[i].prices) = 1

\* ------------------------------------------------------------------------
\* The cursors of one pagination (SpecPaging)
\* ------------------------------------------------------------------------

\* C15 as claimed - Cursor monotonicity: the cursor of each request of a
\* pagination is strictly less than the cursor of the request before it; a
\* full page whose candidate is not strictly less than the cursor it was
\* requested with is the last one; and the loop always ends by itself (the
\* page bound of the model never cuts it).
CursorStrictlyDecreases ==
    /\ \A j \in 3..Len(pageLog) : pageLog[j].to < pageLog[j - 1].to
    /\ \A j \in 2..Len(pageLog) :
           (FullPage(j) /\ pageLog[j].oldest >= pageLog[j].to) =>
               (j = Len(pageLog) /\ pc = "load")
    /\ pc = "fetch" => Len(pageLog) < MaxPages

\* C16 - Budget rejection during pagination: a rejected response is the last
\* one of its pagination and the function has returned after it (no request
\* follows, nothing is raised); the step that receives it returns exactly
\* the records accumulated before it and adds none, whatever data it
\* carries; every other response adds its own sales after the records
\* accumulated so far.
BudgetRejectionPartialResult ==
    /\ [](\A j \in 1..Len(pageLog) :
              pageLog[j].rejected => (j = Len(pageLog) /\ pc = "load"))
    /\ [][(pc = "fetch" /\ Len(pageLog') = Len(pageLog) + 1) =>
              IF Rejected(lastPage'.body)
              THEN /\ pc' = "load"
                   /\ results' = results
                   /\ new_auctions' = results
              ELSE /\ results' = results \o lastPage'.kept
                   /\ pc' = "load" => new_auctions' = results'
         ]_vars

\* Two full pages of sales were accumulated; the third response is rejected
\* and carries a full page of sales: the four records are returned.
BudgetRejectionWitness ==
    /\ pc = "load"
    /\ Len(pageLog) = 3
    /\ pageLog[3].rejected
    /\ pageLog[3].size = BATCH_SIZE
    /\ \E i \in 1..Len(lastPage.body.tokenPrices) :
           lastPage.body.tokenPrices[i].deal = "auction"
    /\ Len(new_auctions) = 2 * BATCH_SIZE

\* ------------------------------------------------------------------------
\* Groups and their requests (SpecGroups)
\* ------------------------------------------------------------------------

\* The slugs of the group a batch request was for, in order.
GroupSlugs(g) ==
    LET P == PlayersOf(POSITIONS[g.pos])
        last == IF g.start + PLAYERS_PER_BATCH < Len(P)
                THEN g.start + PLAYERS_PER_BATCH ELSE Len(P)
    IN  [i \in 1..(last - g.start) |-> P[g.start + i].slug]

IsPrefix(a, b) == Len(a) <= Len(b) /\ SubSeq(b, 1, Len(a)) = a

\* The group of the record is done with: a later group has been asked for,
\* or the run is past its batch loop.
GroupDone(i) == i < Len(groups) \/ pc \in {"csv", "marker", "done"}

\* C17 - Batch first, whole-group fallback: no group is asked for in two
\* batch requests, and whatever the run is doing for a player it does under
\* the batch request of that player's group, made before; the players
\* fetched individually after a rejected batch are the first players of its
\* group, each once and in group order, and all of them once the group is
\* done with; after a batch that was not rejected no player is fetched
\* individually; the records about to be merged are those the individual
\* fetch returned when the batch was rejected (nothing of the rejected
\* response), and the player's records of the batch otherwise.
BatchFirstWholeGroupFallback ==
    /\ \A i, j \in 1..Len(groups) :
           (groups[i].pos = groups[j].pos /\ groups[i].start = groups[j].start)
               => i = j
    /\ pc \in {"fetch", "load", "save_open", "save_dump"} =>
           /\ groups # << >>
           /\ groups[Len(groups)].pos = pos_i
           /\ groups[Len(groups)].start = batch_start
    /\ \A i \in 1..Len(groups) :
           IF groups[i].rejected
           THEN /\ IsPrefix(groups[i].calls, GroupSlugs(groups[i]))
                /\ GroupDone(i) => groups[i].calls = GroupSlugs(groups[i])
           ELSE groups[i].calls = << >>
    /\ pc = "fetch" =>
           /\ groups[Len(groups)].rejected
           /\ Len(groups[Len(groups)].calls)
                  = IF pageLog = << >> THEN p_i - 1 ELSE p_i
    /\ pc = "load" =>
           IF groups[Len(groups)].rejected
           THEN /\ new_auctions = results
                /\ pageLog # << >>
                /\ groups[Len(groups)].calls[p_i] = CurSlug
           ELSE /\ new_auctions = batch_results[CurSlug].list
                /\ pageLog = << >>

\* A completed run whose first batch was rejected with data in it, and both
\* players of the group were fetched one by one; the next batch was not,
\* and nobody of its group was.
BatchFirstWitness ==
    /\ pc = "done"
    /\ Len(groups) = 3
    /\ groups[1].rejected
    /\ Len(groups[1].calls) = PLAYERS_PER_BATCH
    /\ groups[1].calls = GroupSlugs(groups[1])
    /\ ~groups[2].rejected
    /\ groups[2].calls = << >>
    /\ \E s \in Slugs : files[s].doc # << >>

\* C18 as claimed - A response with an error that is no budget rejection is
\* an empty result: when the single response of an individual fetch carried
\* such an error, the fetch hands no record to the merge.
NonBudgetErrorIsEmpty ==
    (/\ pc = "load"
     /\ Len(pageLog) = 1
     /\ ~pageLog[1].rejected
     /\ \E i \in 1..Len(lastPage.body.errors) :
            lastPage.body.errors[i] = OtherError)
        => new_auctions = << >>

\* ------------------------------------------------------------------------
\* The count of the requests (SpecCalls)
\* ------------------------------------------------------------------------

\* C20 as claimed - The API call counter: when main() reports it, after the
\* last table, api_calls is the number of requests the run made.
ApiCallsCountsRequests ==
    pc \in {"marker", "done"} => api_calls = requests

====
